---- MODULE Spec2Model ----
(***************************************************************************)
(* Power Automate Log Viewer: ingestion (FileUpload.processFiles,          *)
(* utils.parseLogFile), the App shell that holds the Dataset, and the      *)
(* Dashboard queries (time-range pre-filter, LogTable filter, timeline     *)
(* buckets, bucket click and brush).                                       *)
(*                                                                         *)
(* Array indices are 1-based here and 0-based in the source.               *)
(***************************************************************************)
EXTENDS Integers, Sequences, FiniteSets, TLC

(***************************************************************************)
(* Bounds of the model.                                                    *)
(***************************************************************************)
\* ingestions (calls of processFiles) started in one behaviour
MaxRuns == 2
\* files in one drop / file selection
MaxFiles == 2
\* lines of a file of the timeline specification
MaxChartLines == 3

(***************************************************************************)
(* JavaScript values.                                                      *)
(***************************************************************************)
\* a property that is absent from the parsed object (reads as undefined)
Undefined == "<undefined>"
\* an absent text property; text is a sequence of characters
UndefinedText == <<"<undefined>">>
\* Date.getTime() of an unparseable date
NaN == -1
\* null, for the slots that hold one value: <<>> is null, <<v>> is v
Null == <<>>
\* FileUpload's error state when no message is shown
NoError == "<null>"

ErrNoValidLogs == "No valid Power Automate Desktop logs found. Please check your file selection."
ErrProcessFailed == "Failed to process files. Please ensure they contain valid line-delimited JSON."

\* !!v for a string-valued JSON property: absent and "" are falsy
Truthy(v) == v # Undefined /\ v # ""

\* new Date(s).getTime(): several strings denote one instant, some denote none
DateGetTime(s) ==
    CASE s = "1970-01-01T00:00:01Z" -> 1000
      [] s = "1970-01-01T00:00:01.000Z" -> 1000
      [] s = "1970-01-01T00:00:01.500Z" -> 1500
      [] s = "1970-01-01T00:00:02Z" -> 2000
      [] s = "1969-12-31T23:59:59.500Z" -> 0 - 500
      [] s = "1970-01-01T00:00:04Z" -> 4000
      [] s = "1970-01-01T00:05:00.999Z" -> 300999
      [] s = "1970-01-01T00:05:01Z" -> 301000
      [] s = "1970-01-01T01:00:00.999Z" -> 3600999
      [] s = "1970-01-01T01:00:01Z" -> 3601000
      [] OTHER -> NaN

\* one character of String.prototype.toLowerCase
LowerChar(c) ==
    CASE c = "A" -> "a"
      [] c = "B" -> "b"
      [] OTHER -> c

ToLowerCase(t) == [i \in 1..Len(t) |-> LowerChar(t[i])]

\* String.prototype.includes
Includes(hay, needle) ==
    \E i \in 0..(Len(hay) - Len(needle)) :
        SubSeq(hay, i + 1, i + Len(needle)) = needle

(***************************************************************************)
(* Log lines and files.                                                    *)
(***************************************************************************)
\* eventData, as far as the performance chart reads it. An optional value is
\* a slot: <<>> when absent, <<v>> when present.
EventData(pc, mi, pi) == [perfCounters |-> pc, machineInfo |-> mi, processInfo |-> pi]

PerfCounters(cpu, mem, proc, queue) ==
    [totalCpuUsagePercent |-> cpu, availableMemoryMB |-> mem,
     processCpuUsagePercent |-> proc, processorQueueLength |-> queue]

MachineInfo(cpu, mem) == [cpuLoad |-> cpu, physicalFreeMemoryMB |-> mem]

ProcessInfo(cpu) == [cpuLoad |-> cpu]

ObjWith(ts, comp, lvl, msg, op, ed) ==
    [eventTimestamp |-> ts, component |-> comp, traceLevel |-> lvl,
     message |-> msg, operationName |-> op, eventData |-> ed]

\* an entry without eventData
Obj(ts, comp, lvl, msg, op) == ObjWith(ts, comp, lvl, msg, op, <<>>)

NoObj == Obj(Undefined, Undefined, Undefined, UndefinedText, UndefinedText)

\* a line of a file, by what trim() and JSON.parse make of it
BlankLine == [kind |-> "blank", obj |-> NoObj]
MalformedLine == [kind |-> "malformed", obj |-> NoObj]
NullLine == [kind |-> "null", obj |-> NoObj]
ScalarLine == [kind |-> "scalar", obj |-> NoObj]
ObjectLine(o) == [kind |-> "object", obj |-> o]

TsFirst == "1970-01-01T00:00:01Z"
TsFirstAlt == "1970-01-01T00:00:01.000Z"
TsMid == "1970-01-01T00:00:01.500Z"
TsLast == "1970-01-01T00:00:02Z"
TsBad == "not-a-date"
TsBeforeEpoch == "1969-12-31T23:59:59.500Z"
TsGap == "1970-01-01T00:00:04Z"
TsFiveMinLess == "1970-01-01T00:05:00.999Z"
TsFiveMin == "1970-01-01T00:05:01Z"
TsHourLess == "1970-01-01T01:00:00.999Z"
TsHour == "1970-01-01T01:00:01Z"

FileA ==
    [name |-> "a.log",
     lines |-> << ObjectLine(Obj(TsLast, "Agent", "Info", <<"A", "b">>, UndefinedText)),
                  MalformedLine,
                  ObjectLine(Obj(TsFirst, "Agent", "Error", <<"b">>, <<"B", "a">>)) >>]

FileB ==
    [name |-> "b.log",
     lines |-> << ObjectLine(Obj(TsFirstAlt, "Svc", "Info", <<"a">>, UndefinedText)),
                  BlankLine,
                  ObjectLine(Obj(TsMid, "Svc", "Critical", <<"a", "b">>, UndefinedText)) >>]

FileJunk ==
    [name |-> "junk.txt",
     lines |-> << MalformedLine,
                  ScalarLine,
                  NullLine,
                  ObjectLine(Obj(TsFirst, "Agent", Undefined, <<"a">>, UndefinedText)),
                  ObjectLine(Obj(TsFirst, "", "Info", <<"a">>, UndefinedText)),
                  ObjectLine(Obj(Undefined, "Agent", "Info", <<"a">>, UndefinedText)) >>]

FileNaN ==
    [name |-> "nan.log",
     lines |-> << ObjectLine(Obj(TsLast, "Agent", "Info", <<"a">>, UndefinedText)),
                  ObjectLine(Obj(TsBad, "Agent", "Warning", <<"b">>, UndefinedText)),
                  ObjectLine(Obj(TsFirst, "Agent", "Info", <<"A">>, UndefinedText)) >>]

FileNoMsg ==
    [name |-> "m.log",
     lines |-> << ObjectLine(Obj(TsMid, "Agent", "Warning", UndefinedText, UndefinedText)) >>]

\* the lines of the files that spread over seconds, minutes and hours
ChartLines ==
    { ObjectLine(Obj(TsBeforeEpoch, "Agent", "Info", <<"a">>, UndefinedText)),
      ObjectLine(Obj(TsFirst, "Agent", "Error", <<"b">>, UndefinedText)),
      ObjectLine(Obj(TsFirst, "Svc", "Info", <<"a">>, UndefinedText)),
      ObjectLine(Obj(TsMid, "Svc", "Critical", <<"a">>, UndefinedText)),
      ObjectLine(Obj(TsLast, "Agent", "Error", <<"a">>, UndefinedText)),
      ObjectLine(Obj(TsGap, "Agent", "Info", <<"a">>, UndefinedText)),
      ObjectLine(Obj(TsFiveMinLess, "Agent", "Info", <<"a">>, UndefinedText)),
      ObjectLine(Obj(TsFiveMin, "Agent", "Error", <<"a">>, UndefinedText)),
      ObjectLine(Obj(TsHourLess, "Agent", "Info", <<"a">>, UndefinedText)),
      ObjectLine(Obj(TsHour, "Agent", "Info", <<"a">>, UndefinedText)),
      ObjectLine(Obj(TsBad, "Agent", "Warning", <<"a">>, UndefinedText)) }

\* the files of up to MaxChartLines of these lines, in any order
ChartFiles ==
    UNION {{[name |-> "chart.log", lines |-> ls] : ls \in [1..n -> ChartLines]} :
              n \in 1..MaxChartLines}

\* the text of a number of up to four digits, as the characters of a message
DigitChars == <<"0", "1", "2", "3", "4", "5", "6", "7", "8", "9">>
NumberText(i) ==
    << DigitChars[((i \div 1000) % 10) + 1], DigitChars[((i \div 100) % 10) + 1],
       DigitChars[((i \div 10) % 10) + 1], DigitChars[(i % 10) + 1] >>

\* the eventData of the entries of a long log: with perfCounters, with the
\* free memory or the CPU load of machineInfo only, with neither, or absent
PerfCountersData == << EventData(<<PerfCounters(<<10>>, <<2048>>, <<>>, <<1>>)>>, <<>>, <<>>) >>
MemoryData == << EventData(<<>>, <<MachineInfo(<<>>, <<1024>>)>>, <<ProcessInfo(<<5>>)>>) >>
CpuLoadData == << EventData(<<>>, <<MachineInfo(<<20>>, <<>>)>>, <<>>) >>
OtherData == << EventData(<<>>, <<MachineInfo(<<>>, <<>>)>>, <<ProcessInfo(<<5>>)>>) >>

LargePatterns == {"counters", "mixed", "none"}

LargeEventData(i, pattern) ==
    IF pattern = "counters" THEN PerfCountersData
    ELSE IF pattern = "none" THEN (IF i % 2 = 0 THEN OtherData ELSE <<>>)
    ELSE CASE i % 5 = 0 -> PerfCountersData
           [] i % 5 = 1 -> MemoryData
           [] i % 5 = 2 -> OtherData
           [] i % 5 = 3 -> CpuLoadData
           [] OTHER -> <<>>

\* entry i of a long log of n entries, already in the order of time: two
\* thirds in the first seconds, the rest after a gap; every seventh an Error
LargeEntry(i, n, pattern) ==
    ObjWith(IF 3 * i <= n THEN TsFirst ELSE IF 3 * i <= 2 * n THEN TsMid ELSE TsGap,
            "Agent",
            IF i % 7 = 0 THEN "Error" ELSE "Info",
            NumberText(i), UndefinedText,
            LargeEventData(i, pattern))

\* the dataset of a long log: its lines are all accepted, and sorting them
\* leaves them as they are
LargeLogs(n, pattern) == [i \in 1..n |-> LargeEntry(i, n, pattern)]

\* the numbers of entries of the long logs of the performance chart: around
\* the number of points it draws, once and twice
LargeSizes == {3, 51, 101, 752, 1502}

\* the numbers of entries of the long logs of the table: around one, two and
\* three pages, in all, within the first seconds and among the errors
PageSizes == {3, 50, 51, 101, 152}

Files == {FileA, FileB, FileJunk, FileNaN, FileNoMsg}

IsInjective(s) == \A i, j \in 1..Len(s) : s[i] = s[j] => i = j

\* the FileList of a drop or of the file input: any files, in any order
FileLists ==
    UNION {{fl \in [1..n -> Files] : IsInjective(fl)} : n \in 0..MaxFiles}

\* the sort algorithms of the JavaScript engines
Engines == {"insertion", "timsort"}

(***************************************************************************)
(* Array.prototype.sort(compareFn) with a comparator that subtracts two    *)
(* numbers. The array is held as <<[key |-> number, val |-> element]>>.    *)
(* An engine takes a NaN result of the comparator as +0; with NaN keys the *)
(* comparator is not consistent and the order is the engine's.             *)
(***************************************************************************)
Compare(a, b) == IF a.key = NaN \/ b.key = NaN THEN 0 ELSE a.key - b.key

RECURSIVE InsertLinear(_, _)
\* insert x into the prefix, moving left past every element that compares greater
InsertLinear(prefix, x) ==
    IF prefix = <<>> THEN <<x>>
    ELSE LET last == prefix[Len(prefix)]
         IN IF Compare(last, x) > 0
            THEN Append(InsertLinear(SubSeq(prefix, 1, Len(prefix) - 1), x), last)
            ELSE Append(prefix, x)

RECURSIVE InsertionSortFrom(_, _)
InsertionSortFrom(arr, k) ==
    IF k > Len(arr) THEN arr
    ELSE InsertionSortFrom(
             InsertLinear(SubSeq(arr, 1, k - 1), arr[k]) \o SubSeq(arr, k + 1, Len(arr)),
             k + 1)

\* straight insertion sort
InsertionSort(arr) == InsertionSortFrom(arr, 2)

Reverse(s) == [i \in 1..Len(s) |-> s[Len(s) + 1 - i]]

RECURSIVE RunEnd(_, _, _)
\* the last index of the run that starts at 1 and has reached index k
RunEnd(arr, k, descending) ==
    IF k = Len(arr) THEN k
    ELSE LET order == Compare(arr[k + 1], arr[k])
         IN IF (descending /\ order >= 0) \/ (~descending /\ order < 0)
            THEN k
            ELSE RunEnd(arr, k + 1, descending)

RECURSIVE BinarySearchPos(_, _, _, _)
\* the insertion point of pivot in arr[left+1 .. right] (left, right 0-based bounds)
BinarySearchPos(arr, pivot, left, right) ==
    IF left >= right THEN left
    ELSE LET mid == left + ((right - left) \div 2)
         IN IF Compare(pivot, arr[mid + 1]) < 0
            THEN BinarySearchPos(arr, pivot, left, mid)
            ELSE BinarySearchPos(arr, pivot, mid + 1, right)

RECURSIVE BinaryInsertionFrom(_, _)
BinaryInsertionFrom(arr, k) ==
    IF k > Len(arr) THEN arr
    ELSE LET pos == BinarySearchPos(arr, arr[k], 0, k - 1)
         IN BinaryInsertionFrom(
                SubSeq(arr, 1, pos) \o <<arr[k]>> \o SubSeq(arr, pos + 1, k - 1)
                    \o SubSeq(arr, k + 1, Len(arr)),
                k + 1)

\* TimSort on a short array: one run, extended by binary insertion
TimSort(arr) ==
    IF Len(arr) < 2 THEN arr
    ELSE LET descending == Compare(arr[2], arr[1]) < 0
             e == RunEnd(arr, 2, descending)
             run == IF descending THEN Reverse(SubSeq(arr, 1, e)) ELSE SubSeq(arr, 1, e)
         IN BinaryInsertionFrom(run \o SubSeq(arr, e + 1, Len(arr)), e + 1)

ArraySort(eng, arr) ==
    IF eng = "insertion" THEN InsertionSort(arr) ELSE TimSort(arr)

\* logs.sort((a, b) => new Date(a.eventTimestamp).getTime() - new Date(b.eventTimestamp).getTime())
SortByTimestamp(eng, logs) ==
    LET keyed == [i \in 1..Len(logs) |->
                     [key |-> DateGetTime(logs[i].eventTimestamp), val |-> logs[i]]]
        sorted == ArraySort(eng, keyed)
    IN [i \in 1..Len(sorted) |-> sorted[i].val]

(***************************************************************************)
(* utils.parseLogFile                                                      *)
(***************************************************************************)
\* mutant of AcceptsLine: the gate forgets traceLevel
AcceptsLineNoLevel(line) ==
    /\ line.kind = "object"
    /\ Truthy(line.obj.eventTimestamp)
    /\ Truthy(line.obj.component)

\* the schema gate on one line; JSON.parse failures and the TypeError of
\* reading a property of null are caught by the same try/catch
AcceptsLine(line) ==
    /\ line.kind = "object"
    /\ Truthy(line.obj.eventTimestamp)
    /\ Truthy(line.obj.component)
    /\ Truthy(line.obj.traceLevel)

RECURSIVE ValidLogs(_)
ValidLogs(lines) ==
    IF lines = <<>> THEN <<>>
    ELSE (IF AcceptsLine(Head(lines)) THEN <<Head(lines).obj>> ELSE <<>>)
             \o ValidLogs(Tail(lines))

ParseLogFile(eng, lines) == SortByTimestamp(eng, ValidLogs(lines))

(***************************************************************************)
(* FileUpload.processFiles: the merge that follows the join of the reads.  *)
(***************************************************************************)
\* the slot of a read that has not resolved
PendingResult == [name |-> "", logs |-> <<>>, ready |-> FALSE]

\* readFile(file) resolved: { name: file.name, logs }
ReadResult(eng, file) ==
    [name |-> file.name, logs |-> ParseLogFile(eng, file.lines), ready |-> TRUE]

\* mutant of StoreResult: the results are collected in the order of arrival
StoreResultByArrival(results, i, res) ==
    LET k == CHOOSE n \in 1..Len(results) :
                 ~results[n].ready /\ \A m \in 1..(n - 1) : results[m].ready
    IN [results EXCEPT ![k] = res]

\* Promise.all keeps the result of task i at index i
StoreResult(results, i, res) == [results EXCEPT ![i] = res]

\* mutant of ValidFileResults: the files without logs are kept
ValidFileResultsAll(results) == results

\* results.filter(res => res.logs.length > 0)
ValidFileResults(results) == SelectSeq(results, LAMBDA res : Len(res.logs) > 0)

RECURSIVE FlatMapLogs(_)
\* validFileResults.flatMap(res => res.logs)
FlatMapLogs(results) ==
    IF results = <<>> THEN <<>>
    ELSE Head(results).logs \o FlatMapLogs(Tail(results))

\* the dataset name, from the files that yielded logs
DatasetName(valid) ==
    IF Len(valid) = 1 THEN valid[1].name
    ELSE ToString(Len(valid)) \o " Log Files Merged"

(***************************************************************************)
(* Dashboard and LogTable queries.                                         *)
(***************************************************************************)
EmptyFilters == [search |-> <<>>, level |-> "", component |-> ""]

\* mutant of InTimeRange: the end of the range is excluded
InTimeRangeOpenEnd(t, range) ==
    /\ t # NaN /\ range.start # NaN /\ range.end # NaN
    /\ t >= range.start /\ t < range.end

\* t >= start && t <= end, false when t is NaN or the bound is
InTimeRange(t, range) ==
    /\ t # NaN /\ range.start # NaN /\ range.end # NaN
    /\ t >= range.start /\ t <= range.end

\* Dashboard.filteredLogs; tr is Null or <<range>>
DashboardFilteredLogs(allLogs, tr) ==
    IF tr = Null THEN allLogs
    ELSE SelectSeq(allLogs,
                   LAMBDA log : InTimeRange(DateGetTime(log.eventTimestamp), tr[1]))

\* log.message.toLowerCase() on an entry that has no message: TypeError
SearchThrows(log, f) == f.search # <<>> /\ log.message = UndefinedText

MatchesSearch(log, f) ==
    \/ f.search = <<>>
    \/ Includes(ToLowerCase(log.message), ToLowerCase(f.search))
    \/ /\ log.operationName # UndefinedText
       /\ Includes(ToLowerCase(log.operationName), ToLowerCase(f.search))

MatchesLevel(log, f) == f.level = "" \/ log.traceLevel = f.level

MatchesComponent(log, f) == f.component = "" \/ log.component = f.component

\* mutant of MatchesFilters: one matching criterion is enough
MatchesFiltersAny(log, f) ==
    MatchesSearch(log, f) \/ MatchesLevel(log, f) \/ MatchesComponent(log, f)

MatchesFilters(log, f) ==
    MatchesSearch(log, f) /\ MatchesLevel(log, f) /\ MatchesComponent(log, f)

\* LogTable.filteredLogs over the logs it is given; threw: the callback raised
TableFilteredLogs(view, f) ==
    IF \E i \in 1..Len(view) : SearchThrows(view[i], f)
    THEN [threw |-> TRUE, value |-> <<>>]
    ELSE [threw |-> FALSE, value |-> SelectSeq(view, LAMBDA log : MatchesFilters(log, f))]

\* the values of the options of the level and component selects
UniqueLevels(view) == {view[i].traceLevel : i \in 1..Len(view)}
UniqueComponents(view) == {view[i].component : i \in 1..Len(view)}

(***************************************************************************)
(* LogTable pagination.                                                    *)
(***************************************************************************)
RowsPerPage == 50

\* Math.ceil(filteredLogs.length / ROWS_PER_PAGE)
TotalPages(rows) == (Len(rows) + RowsPerPage - 1) \div RowsPerPage

\* "Page {currentPage} of {totalPages || 1}"
DisplayedTotalPages(rows) == IF TotalPages(rows) = 0 THEN 1 ELSE TotalPages(rows)

\* Array.prototype.slice(start, end) for 0 <= start <= end
Slice(arr, start, end) ==
    LET to == IF end < Len(arr) THEN end ELSE Len(arr)
    IN IF start >= to THEN <<>> ELSE SubSeq(arr, start + 1, to)

\* mutant of PaginatedLogs: the slice takes the first row of the next page too
PaginatedLogsOverlapping(rows, page) ==
    Slice(rows, (page - 1) * RowsPerPage, page * RowsPerPage + 1)

\* filteredLogs.slice((currentPage - 1) * ROWS_PER_PAGE, currentPage * ROWS_PER_PAGE)
PaginatedLogs(rows, page) == Slice(rows, (page - 1) * RowsPerPage, page * RowsPerPage)

(***************************************************************************)
(* LogCharts.volumeData: the timeline buckets of the full dataset.         *)
(***************************************************************************)
FiveMinutesMs == 300000
OneHourMs == 3600000
BucketOneSecondMs == 1000
BucketTenSecondsMs == 10000
BucketOneMinuteMs == 60000

\* mutant of BucketSizeMs: the limits belong to the narrower width
BucketSizeMsInclusive(allLogs) ==
    LET startTime == DateGetTime(allLogs[1].eventTimestamp)
        endTime == DateGetTime(allLogs[Len(allLogs)].eventTimestamp)
        isNaN == startTime = NaN \/ endTime = NaN
        durationMs == endTime - startTime
    IN IF ~isNaN /\ durationMs <= FiveMinutesMs THEN BucketOneSecondMs
       ELSE IF ~isNaN /\ durationMs <= OneHourMs THEN BucketTenSecondsMs
       ELSE BucketOneMinuteMs

\* the bucket width, from the span between the first and the last entry
BucketSizeMs(allLogs) ==
    LET startTime == DateGetTime(allLogs[1].eventTimestamp)
        endTime == DateGetTime(allLogs[Len(allLogs)].eventTimestamp)
        isNaN == startTime = NaN \/ endTime = NaN
        durationMs == endTime - startTime
    IN IF ~isNaN /\ durationMs < FiveMinutesMs THEN BucketOneSecondMs
       ELSE IF ~isNaN /\ durationMs < OneHourMs THEN BucketTenSecondsMs
       ELSE BucketOneMinuteMs

\* mutant of BucketKey: the quotient is truncated toward zero
BucketKeyTruncated(ts, size) ==
    IF ts = NaN THEN NaN
    ELSE IF ts < 0 THEN 0 - (((0 - ts) \div size) * size)
    ELSE (ts \div size) * size

\* Math.floor(ts / bucketSizeMs) * bucketSizeMs
BucketKey(ts, size) == IF ts = NaN THEN NaN ELSE (ts \div size) * size

\* mutant of IsErrorLevel: Critical is not counted
IsErrorLevelOnly(log) == log.traceLevel = "Error"

IsErrorLevel(log) == log.traceLevel = "Error" \/ log.traceLevel = "Critical"

RECURSIVE AscendingKeys(_)
\* the integer keys of an object are enumerated in ascending order
AscendingKeys(keys) ==
    IF keys = {} THEN <<>>
    ELSE LET least == CHOOSE k \in keys : \A other \in keys : k <= other
         IN <<least>> \o AscendingKeys(keys \ {least})

\* Object.values(buckets): the integer keys first, then the key "NaN"
BucketKeyOrder(keys) ==
    AscendingKeys(keys \ {NaN}) \o (IF NaN \in keys THEN <<NaN>> ELSE <<>>)

\* the bucket of key: count++ for each of its logs, errors++ for its error logs
MakeBucket(allLogs, keyOf, key, size) ==
    LET members == {i \in 1..Len(allLogs) : keyOf[i] = key}
    IN [timestamp |-> key,
        endTime |-> IF key = NaN THEN NaN ELSE key + size,
        count |-> Cardinality(members),
        errors |-> Cardinality({i \in members : IsErrorLevel(allLogs[i])})]

\* the buckets, sorted with (a, b) => a.timestamp - b.timestamp
VolumeData(eng, allLogs) ==
    IF Len(allLogs) = 0 THEN <<>>
    ELSE LET size == BucketSizeMs(allLogs)
             keyOf == [i \in 1..Len(allLogs) |->
                          BucketKey(DateGetTime(allLogs[i].eventTimestamp), size)]
             order == BucketKeyOrder({keyOf[i] : i \in 1..Len(allLogs)})
             keyed == [i \in 1..Len(order) |->
                          [key |-> order[i],
                           val |-> MakeBucket(allLogs, keyOf, order[i], size)]]
             sorted == ArraySort(eng, keyed)
         IN [i \in 1..Len(sorted) |-> sorted[i].val]

(***************************************************************************)
(* LogCharts.perfData: the points of the performance chart.                *)
(***************************************************************************)
MaxPerfPoints == 500

\* mutant of IsPerfLog: only the entries with perfCounters are selected
IsPerfLogCountersOnly(log) ==
    /\ log.eventData # <<>>
    /\ log.eventData[1].perfCounters # <<>>

\* l.eventData?.perfCounters || machineInfo?.physicalFreeMemoryMB !== undefined
\* || machineInfo?.cpuLoad !== undefined
IsPerfLog(log) ==
    /\ log.eventData # <<>>
    /\ LET ed == log.eventData[1]
       IN \/ ed.perfCounters # <<>>
          \/ /\ ed.machineInfo # <<>>
             /\ \/ ed.machineInfo[1].physicalFreeMemoryMB # <<>>
                \/ ed.machineInfo[1].cpuLoad # <<>>

\* Math.ceil(n / d) for n >= 0, d > 0
CeilDiv(n, d) == (n + d - 1) \div d

\* mutant of PerfStep: the quotient is rounded down (and is at least 1)
PerfStepFloor(n) == IF n < MaxPerfPoints THEN 1 ELSE n \div MaxPerfPoints

\* const step = Math.ceil(perfLogs.length / 500)
PerfStep(n) == CeilDiv(n, MaxPerfPoints)

\* x || 0 for an optional number
OrZero(slot) == IF slot = <<>> THEN 0 ELSE slot[1]

\* the point of one entry: perfCounters when present, else machineInfo and
\* processInfo
PerfPoint(log) ==
    LET ed == log.eventData[1]
    IN IF ed.perfCounters # <<>>
       THEN LET pc == ed.perfCounters[1]
            IN [timestamp |-> DateGetTime(log.eventTimestamp),
                cpu |-> OrZero(pc.totalCpuUsagePercent),
                memory |-> OrZero(pc.availableMemoryMB),
                processCpu |-> OrZero(pc.processCpuUsagePercent),
                queueLength |-> OrZero(pc.processorQueueLength)]
       ELSE [timestamp |-> DateGetTime(log.eventTimestamp),
             cpu |-> IF ed.machineInfo = <<>> THEN 0 ELSE OrZero(ed.machineInfo[1].cpuLoad),
             memory |-> IF ed.machineInfo = <<>> THEN 0
                        ELSE OrZero(ed.machineInfo[1].physicalFreeMemoryMB),
             processCpu |-> IF ed.processInfo = <<>> THEN 0 ELSE OrZero(ed.processInfo[1].cpuLoad),
             queueLength |-> 0]

\* perfLogs.filter((_, i) => i % step === 0): the entries that are drawn
SampledPerfLogs(effectiveLogs) ==
    LET perfLogs == SelectSeq(effectiveLogs, IsPerfLog)
    IN IF Len(perfLogs) = 0 THEN <<>>
       ELSE LET step == PerfStep(Len(perfLogs))
                indexed == [k \in 1..Len(perfLogs) |-> [i |-> k - 1, log |-> perfLogs[k]]]
                kept == SelectSeq(indexed, LAMBDA e : e.i % step = 0)
            IN [k \in 1..Len(kept) |-> kept[k].log]

\* perfData
PerfData(effectiveLogs) ==
    LET sampled == SampledPerfLogs(effectiveLogs)
    IN [k \in 1..Len(sampled) |-> PerfPoint(sampled[k])]

\* the logs of one bucket: t >= data.timestamp && t < data.endTime
\* mutant of BucketLogs: an entry at the end of the bucket belongs to it
BucketLogsClosed(allLogs, data) ==
    SelectSeq(allLogs,
              LAMBDA log :
                  LET t == DateGetTime(log.eventTimestamp)
                  IN /\ t # NaN /\ data.timestamp # NaN
                     /\ t >= data.timestamp /\ t <= data.endTime)

BucketLogs(allLogs, data) ==
    SelectSeq(allLogs,
              LAMBDA log :
                  LET t == DateGetTime(log.eventTimestamp)
                  IN /\ t # NaN /\ data.timestamp # NaN
                     /\ t >= data.timestamp /\ t < data.endTime)

(***************************************************************************)
(* State.                                                                  *)
(***************************************************************************)
VARIABLES
    engine,       \* the sort algorithm of the JavaScript engine the page runs on
    runs,         \* the calls of processFiles: pc, files, pending reads, results
    logs,         \* App: the dataset entries
    fileName,     \* App: the dataset name
    hasData,      \* App: FALSE shows FileUpload, TRUE shows Dashboard
    isLoading,    \* FileUpload
    error,        \* FileUpload
    timeRange,    \* Dashboard: Null or <<[start, end]>>
    filters,      \* Dashboard: the LogFilter
    selectedLog,  \* Dashboard: Null or <<entry>>
    currentPage,  \* LogTable: the page of the table, from 1
    lastOp        \* history: the handler that ran last

vars == <<engine, runs, logs, fileName, hasData, isLoading, error,
          timeRange, filters, selectedLog, currentPage, lastOp>>

appVars == <<logs, fileName, hasData>>
uploadVars == <<isLoading, error>>
dashVars == <<timeRange, filters, selectedLog, currentPage>>

RunIds == 1..MaxRuns

IdleRun == [pc |-> "idle", files |-> <<>>, pending |-> {}, results |-> <<>>,
            mounted |-> FALSE]

\* history: the handler, its FileList, the index of the read that ended last,
\* and whether the Dashboard was shown when the handler ran
Op(name, files) == [op |-> name, files |-> files, arg |-> 0, had |-> FALSE]

\* what Dashboard and LogTable compute on a render
View == DashboardFilteredLogs(logs, timeRange)
Table == TableFilteredLogs(View, filters)
\* mutant of Buckets: the chart is given the entries in view
BucketsOfView == VolumeData(engine, View)

Buckets == VolumeData(engine, logs)
PerfPoints == PerfData(View)
Page == PaginatedLogs(Table.value, currentPage)

\* mutant of LevelChoices: the options come from the rows of the table
LevelChoicesOfRows == UniqueLevels(Table.value)

\* the options of the level select and of the component select (after the
\* "All" option, whose value is "")
LevelChoices == UniqueLevels(View)
ComponentChoices == UniqueComponents(View)

\* the page is rendered: an error raised by a render unmounts the whole tree,
\* and no state update has an effect from then on
Alive == ~(hasData /\ Table.threw)
DashboardShown == hasData /\ Alive

Init ==
    /\ engine \in Engines
    /\ runs = [r \in RunIds |-> IdleRun]
    /\ logs = <<>>
    /\ fileName = ""
    /\ hasData = FALSE
    /\ isLoading = FALSE
    /\ error = NoError
    /\ timeRange = Null
    /\ filters = EmptyFilters
    /\ selectedLog = Null
    /\ currentPage = 1
    /\ lastOp = Op("init", <<>>)

(***************************************************************************)
(* App.                                                                    *)
(***************************************************************************)
\* mutant of HandleDataLoaded: the new entries are appended to the old ones
HandleDataLoadedAppend(parsedLogs, name) ==
    /\ logs' = logs \o parsedLogs
    /\ fileName' = name
    /\ hasData' = TRUE
    /\ timeRange' = Null
    /\ filters' = EmptyFilters
    /\ selectedLog' = IF hasData THEN selectedLog ELSE Null
    /\ currentPage' = 1
    /\ isLoading' = FALSE
    /\ error' = NoError

\* handleDataLoaded: the dataset is replaced. A Dashboard that is shown runs
\* its effect on [logs]; one that mounts starts from its initial state. The
\* FileUpload, if shown, is unmounted and its state is gone.
HandleDataLoaded(parsedLogs, name) ==
    /\ logs' = parsedLogs
    /\ fileName' = name
    /\ hasData' = TRUE
    /\ timeRange' = Null
    /\ filters' = EmptyFilters
    /\ selectedLog' = IF hasData THEN selectedLog ELSE Null
    /\ currentPage' = 1
    /\ isLoading' = FALSE
    /\ error' = NoError

\* handleReset (Dashboard onBack): back to a fresh FileUpload
HandleReset ==
    /\ DashboardShown
    /\ logs' = <<>>
    /\ fileName' = ""
    /\ hasData' = FALSE
    /\ timeRange' = Null
    /\ filters' = EmptyFilters
    /\ selectedLog' = Null
    /\ currentPage' = 1
    /\ isLoading' = FALSE
    /\ error' = NoError
    /\ lastOp' = Op("reset", <<>>)
    /\ UNCHANGED <<engine, runs>>

(***************************************************************************)
(* FileUpload.                                                             *)
(***************************************************************************)
DoneRun == [pc |-> "done", files |-> <<>>, pending |-> {}, results |-> <<>>,
            mounted |-> FALSE]

\* setError(msg) and the finally block, on the FileUpload that started run r
\* if it is still mounted
ReportError(r, msg) ==
    IF runs[r].mounted
    THEN error' = msg /\ isLoading' = FALSE
    ELSE UNCHANGED uploadVars

\* processFiles after the await: filter, flatMap, sort, name, publish
Merge(r, i, results) ==
    LET valid == ValidFileResults(results)
        allLogs == FlatMapLogs(valid)
    IN IF Len(allLogs) = 0
       THEN /\ ReportError(r, ErrNoValidLogs)
            /\ runs' = [runs EXCEPT ![r] = DoneRun]
            /\ lastOp' = [Op("empty", runs[r].files) EXCEPT !.arg = i, !.had = hasData]
            /\ UNCHANGED <<appVars, dashVars>>
       ELSE /\ HandleDataLoaded(SortByTimestamp(engine, allLogs), DatasetName(valid))
            /\ runs' = [q \in RunIds |->
                           IF q = r THEN DoneRun ELSE [runs[q] EXCEPT !.mounted = FALSE]]
            /\ lastOp' = [Op("publish", runs[r].files) EXCEPT !.arg = i, !.had = hasData]

\* processFiles up to the await
ProcessFiles(r, fl) ==
    IF Len(fl) = 0
    THEN /\ isLoading' = FALSE
         /\ error' = NoError
         /\ UNCHANGED runs
    ELSE /\ isLoading' = TRUE
         /\ error' = NoError
         /\ runs' = [runs EXCEPT ![r] =
                        [pc |-> "reading", files |-> fl, pending |-> 1..Len(fl),
                         results |-> [i \in 1..Len(fl) |-> PendingResult],
                         mounted |-> TRUE]]

\* mutant of HasFiles: processFiles is called with any FileList
HasFilesAlways(fl) == TRUE

\* the guard of onDrop and of onFileChange
HasFiles(fl) == Len(fl) > 0

\* onDrop / onFileChange with the given FileList
OnDrop(fl) ==
    /\ ~hasData
    /\ \E r \in RunIds :
          /\ runs[r].pc = "idle"
          /\ \A q \in 1..(r - 1) : runs[q].pc # "idle"
          /\ IF HasFiles(fl)
             THEN ProcessFiles(r, fl)
             ELSE UNCHANGED <<runs, uploadVars>>
    /\ lastOp' = Op("drop", fl)
    /\ UNCHANGED <<engine, appVars, dashVars>>

\* reader.onload of file i of run r; the last one resumes processFiles
TaskLoaded(r, i) ==
    /\ Alive
    /\ runs[r].pc = "reading"
    /\ i \in runs[r].pending
    /\ LET results == StoreResult(runs[r].results, i, ReadResult(engine, runs[r].files[i]))
           pending == runs[r].pending \ {i}
       IN IF pending # {}
          THEN /\ runs' = [runs EXCEPT ![r].results = results, ![r].pending = pending]
               /\ lastOp' = Op("loaded", <<>>)
               /\ UNCHANGED <<appVars, uploadVars, dashVars>>
          ELSE Merge(r, i, results)
    /\ UNCHANGED engine

\* reader.onerror of file i of run r: Promise.all rejects, the catch block runs
TaskFailed(r, i) ==
    /\ Alive
    /\ runs[r].pc = "reading"
    /\ i \in runs[r].pending
    /\ ReportError(r, ErrProcessFailed)
    /\ runs' = [runs EXCEPT ![r] = DoneRun]
    /\ lastOp' = [Op("failed", runs[r].files) EXCEPT !.arg = i, !.had = hasData]
    /\ UNCHANGED <<engine, appVars, dashVars>>

(***************************************************************************)
(* Dashboard, LogTable and LogCharts handlers.                             *)
(***************************************************************************)
\* the texts typed into the search box
SearchInputs == {<<>>, <<"a">>, <<"B">>}

\* the search input's onChange (its clear button is the input <<>>)
OnSearchChange(s) ==
    /\ DashboardShown
    /\ filters' = [filters EXCEPT !.search = s]
    /\ currentPage' = 1
    /\ lastOp' = Op("ui", <<>>)
    /\ UNCHANGED <<engine, runs, appVars, uploadVars, timeRange, selectedLog>>

\* mutant of OnLevelChange: the table stays on the page it was on
OnLevelChangeKeepPage(l) ==
    /\ DashboardShown
    /\ l \in {""} \cup LevelChoices
    /\ filters' = [filters EXCEPT !.level = l]
    /\ lastOp' = Op("ui", <<>>)
    /\ UNCHANGED <<engine, runs, appVars, uploadVars, timeRange, selectedLog, currentPage>>

\* the level select's onChange: "" or one of uniqueLevels
OnLevelChange(l) ==
    /\ DashboardShown
    /\ l \in {""} \cup LevelChoices
    /\ filters' = [filters EXCEPT !.level = l]
    /\ currentPage' = 1
    /\ lastOp' = Op("ui", <<>>)
    /\ UNCHANGED <<engine, runs, appVars, uploadVars, timeRange, selectedLog>>

\* the component select's onChange: "" or one of uniqueComponents
OnComponentChange(c) ==
    /\ DashboardShown
    /\ c \in {""} \cup ComponentChoices
    /\ filters' = [filters EXCEPT !.component = c]
    /\ currentPage' = 1
    /\ lastOp' = Op("ui", <<>>)
    /\ UNCHANGED <<engine, runs, appVars, uploadVars, timeRange, selectedLog>>

\* clearFilters; the button is rendered when some filter is set
ClearFilters ==
    /\ DashboardShown
    /\ filters.component # "" \/ filters.level # "" \/ filters.search # <<>>
    /\ filters' = EmptyFilters
    /\ currentPage' = 1
    /\ lastOp' = Op("ui", <<>>)
    /\ UNCHANGED <<engine, runs, appVars, uploadVars, timeRange, selectedLog>>

\* a < b and a >= b of JavaScript numbers: false when one of them is NaN
NumLess(a, b) == a # NaN /\ b # NaN /\ a < b
NumAtLeast(a, b) == a # NaN /\ b # NaN /\ a >= b

\* mutant of BrushIndices: a bucket that starts where the range ends is in it
BrushIndicesInclusive(volumeData, range) ==
    IF range = Null \/ Len(volumeData) = 0 THEN Null
    ELSE LET from == {n \in 1..Len(volumeData) :
                         NumAtLeast(volumeData[n].timestamp, range[1].start)}
             start == IF from = {} THEN 1
                      ELSE CHOOSE n \in from : \A other \in from : n <= other
             upTo == {n \in 1..Len(volumeData) :
                         /\ volumeData[n].timestamp # NaN /\ range[1].end # NaN
                         /\ volumeData[n].timestamp <= range[1].end}
             end == IF upTo = {} THEN Len(volumeData)
                    ELSE CHOOSE n \in upTo : \A other \in upTo : n >= other
         IN <<[startIndex |-> start, endIndex |-> IF end < start THEN start ELSE end]>>

\* startIndex and endIndex of the controlled Brush, counted from 1: the first
\* bucket that starts at or after the start of the range (else the first
\* bucket), and the last bucket that starts before its end (else the last
\* bucket), not before startIndex; both undefined without a range or bucket
BrushIndices(volumeData, range) ==
    IF range = Null \/ Len(volumeData) = 0 THEN Null
    ELSE LET from == {n \in 1..Len(volumeData) :
                         NumAtLeast(volumeData[n].timestamp, range[1].start)}
             start == IF from = {} THEN 1
                      ELSE CHOOSE n \in from : \A other \in from : n <= other
             upTo == {n \in 1..Len(volumeData) :
                         NumLess(volumeData[n].timestamp, range[1].end)}
             end == IF upTo = {} THEN Len(volumeData)
                    ELSE CHOOSE n \in upTo : \A other \in upTo : n >= other
         IN <<[startIndex |-> start, endIndex |-> IF end < start THEN start ELSE end]>>

\* handleBrushChange calls onTimeRangeChange: not when the range of the
\* buckets i..j is the current time range
BrushEmits(volumeData, i, j) ==
    ~(/\ timeRange # Null
      /\ timeRange[1].start = volumeData[i].timestamp
      /\ timeRange[1].end = volumeData[j].endTime)

\* mutant of HandleBrushChange: the range ends where its last bucket starts
HandleBrushChangeToStart(volumeData, i, j) ==
    /\ DashboardShown
    /\ i \in 1..Len(volumeData) /\ j \in i..Len(volumeData)
    /\ LET new == [start |-> volumeData[i].timestamp, end |-> volumeData[j].timestamp]
       IN timeRange' = IF timeRange # Null /\ timeRange[1] = new THEN timeRange ELSE <<new>>
    /\ lastOp' = Op("ui", <<>>)
    /\ UNCHANGED <<engine, runs, appVars, uploadVars, filters, selectedLog, currentPage>>

\* handleBrushChange with e.startIndex = i, e.endIndex = j, over the
\* volumeData of the render
HandleBrushChange(volumeData, i, j) ==
    /\ DashboardShown
    /\ i \in 1..Len(volumeData) /\ j \in i..Len(volumeData)
    /\ LET new == [start |-> volumeData[i].timestamp, end |-> volumeData[j].endTime]
       IN timeRange' = IF BrushEmits(volumeData, i, j) THEN <<new>> ELSE timeRange
    /\ lastOp' = Op("ui", <<>>)
    /\ UNCHANGED <<engine, runs, appVars, uploadVars, filters, selectedLog, currentPage>>

\* handleChartClick on the bucket data (e.activePayload[0].payload): zoom to
\* it, then filter on and select its errors
HandleChartClick(data) ==
    /\ DashboardShown
    /\ LET new == [start |-> data.timestamp, end |-> data.endTime]
           errorLogs == SelectSeq(BucketLogs(logs, data), IsErrorLevel)
       IN /\ timeRange' = IF timeRange # Null /\ timeRange[1] = new THEN timeRange ELSE <<new>>
          /\ IF Len(errorLogs) > 0
             THEN /\ filters' = [search |-> <<>>, level |-> "Error", component |-> ""]
                  /\ selectedLog' = IF Len(errorLogs) = 1 THEN <<errorLogs[1]>> ELSE selectedLog
             ELSE /\ filters' = EmptyFilters
                  /\ UNCHANGED selectedLog
    /\ currentPage' = 1
    /\ lastOp' = Op("ui", <<>>)
    /\ UNCHANGED <<engine, runs, appVars, uploadVars>>

\* the Reset Zoom button, rendered when a time range is set
ResetZoom ==
    /\ DashboardShown
    /\ timeRange # Null
    /\ timeRange' = Null
    /\ lastOp' = Op("ui", <<>>)
    /\ UNCHANGED <<engine, runs, appVars, uploadVars, filters, selectedLog, currentPage>>

\* handlePageChange(newPage)
HandlePageChange(newPage) ==
    /\ currentPage' = IF newPage >= 1 /\ newPage <= TotalPages(Table.value)
                      THEN newPage ELSE currentPage
    /\ lastOp' = Op("ui", <<>>)
    /\ UNCHANGED <<engine, runs, appVars, uploadVars, timeRange, filters, selectedLog>>

\* the previous-page button, disabled on page 1
PreviousPage ==
    /\ DashboardShown
    /\ currentPage # 1
    /\ HandlePageChange(currentPage - 1)

\* the next-page button, disabled on the last page and without pages
NextPage ==
    /\ DashboardShown
    /\ ~(currentPage = TotalPages(Table.value) \/ TotalPages(Table.value) = 0)
    /\ HandlePageChange(currentPage + 1)

\* a click on row i of the page of the table
OnLogClick(i) ==
    /\ DashboardShown
    /\ i \in 1..Len(Page)
    /\ selectedLog' = <<Page[i]>>
    /\ lastOp' = Op("ui", <<>>)
    /\ UNCHANGED <<engine, runs, appVars, uploadVars, timeRange, filters, currentPage>>

\* the modal's onClose
CloseModal ==
    /\ DashboardShown
    /\ selectedLog # Null
    /\ selectedLog' = Null
    /\ lastOp' = Op("ui", <<>>)
    /\ UNCHANGED <<engine, runs, appVars, uploadVars, timeRange, filters, currentPage>>

\* ingestion and the App shell
Next ==
    \/ \E fl \in FileLists : OnDrop(fl)
    \/ \E r \in RunIds : \E i \in 1..MaxFiles : TaskLoaded(r, i)
    \/ \E r \in RunIds : \E i \in 1..MaxFiles : TaskFailed(r, i)
    \/ HandleReset

Spec == Init /\ [][Next]_vars

\* the merge of processFiles on a FileList whose reads all succeed
MergedLogs(eng, fl) ==
    SortByTimestamp(eng,
        FlatMapLogs(ValidFileResults([i \in 1..Len(fl) |-> ReadResult(eng, fl[i])])))

MergedName(eng, fl) ==
    DatasetName(ValidFileResults([i \in 1..Len(fl) |-> ReadResult(eng, fl[i])]))

\* the Dashboard right after a dataset was published
DashInit ==
    /\ engine \in Engines
    /\ \E fl \in FileLists :
          /\ Len(MergedLogs(engine, fl)) > 0
          /\ logs = MergedLogs(engine, fl)
          /\ fileName = MergedName(engine, fl)
          /\ lastOp = [Op("publish", fl) EXCEPT !.arg = Len(fl)]
    /\ runs = [r \in RunIds |-> IF r = 1 THEN DoneRun ELSE IdleRun]
    /\ hasData = TRUE
    /\ isLoading = FALSE
    /\ error = NoError
    /\ timeRange = Null
    /\ filters = EmptyFilters
    /\ selectedLog = Null
    /\ currentPage = 1

\* the handlers of the Dashboard, LogTable and LogCharts
DashNext ==
    \/ \E s \in SearchInputs : OnSearchChange(s)
    \/ \E l \in {""} \cup LevelChoices : OnLevelChange(l)
    \/ \E c \in {""} \cup ComponentChoices : OnComponentChange(c)
    \/ ClearFilters
    \/ LET volumeData == Buckets
       IN \E i, j \in 1..Len(volumeData) : HandleBrushChange(volumeData, i, j)
    \/ LET volumeData == Buckets
       IN \E k \in 1..Len(volumeData) : HandleChartClick(volumeData[k])
    \/ ResetZoom
    \/ \E i \in 1..Len(Page) : OnLogClick(i)
    \/ CloseModal

DashSpec == DashInit /\ [][DashNext]_vars

\* the Dashboard right after the dataset of one file of ChartFiles was
\* published
ChartInit ==
    /\ engine \in Engines
    /\ \E file \in ChartFiles :
          /\ logs = MergedLogs(engine, <<file>>)
          /\ fileName = MergedName(engine, <<file>>)
          /\ lastOp = [Op("publish", <<file>>) EXCEPT !.arg = 1]
    /\ runs = [r \in RunIds |-> IF r = 1 THEN DoneRun ELSE IdleRun]
    /\ hasData = TRUE
    /\ isLoading = FALSE
    /\ error = NoError
    /\ timeRange = Null
    /\ filters = EmptyFilters
    /\ selectedLog = Null
    /\ currentPage = 1

\* the handlers of the timeline (LogCharts) and the Reset Zoom button
ChartNext ==
    \/ LET volumeData == Buckets
       IN \E i, j \in 1..Len(volumeData) : HandleBrushChange(volumeData, i, j)
    \/ LET volumeData == Buckets
       IN \E k \in 1..Len(volumeData) : HandleChartClick(volumeData[k])
    \/ ResetZoom

ChartSpec == ChartInit /\ [][ChartNext]_vars

\* the Dashboard right after the dataset of one long log was published
LargeInit ==
    /\ engine \in Engines
    /\ \E n \in LargeSizes, pattern \in LargePatterns : logs = LargeLogs(n, pattern)
    /\ fileName = "long.log"
    /\ lastOp = [Op("publish", <<>>) EXCEPT !.arg = 1]
    /\ runs = [r \in RunIds |-> IF r = 1 THEN DoneRun ELSE IdleRun]
    /\ hasData = TRUE
    /\ isLoading = FALSE
    /\ error = NoError
    /\ timeRange = Null
    /\ filters = EmptyFilters
    /\ selectedLog = Null
    /\ currentPage = 1

\* the handlers that change what the table and the performance chart show
LargeNext ==
    \/ \E l \in {""} \cup LevelChoices : OnLevelChange(l)
    \/ ClearFilters
    \/ LET volumeData == Buckets
       IN \E i, j \in 1..Len(volumeData) : HandleBrushChange(volumeData, i, j)
    \/ ResetZoom

LargeSpec == LargeInit /\ [][LargeNext]_vars

\* the Dashboard right after the dataset of one long log was published
PageInit ==
    /\ engine \in Engines
    /\ \E n \in PageSizes : logs = LargeLogs(n, "mixed")
    /\ fileName = "long.log"
    /\ lastOp = [Op("publish", <<>>) EXCEPT !.arg = 1]
    /\ runs = [r \in RunIds |-> IF r = 1 THEN DoneRun ELSE IdleRun]
    /\ hasData = TRUE
    /\ isLoading = FALSE
    /\ error = NoError
    /\ timeRange = Null
    /\ filters = EmptyFilters
    /\ selectedLog = Null
    /\ currentPage = 1

\* the handlers of the table, and those that change what it is given
PageNext ==
    \/ PreviousPage
    \/ NextPage
    \/ \E s \in {<<>>, <<"a">>} : OnSearchChange(s)
    \/ \E l \in {""} \cup LevelChoices : OnLevelChange(l)
    \/ \E c \in {""} \cup ComponentChoices : OnComponentChange(c)
    \/ ClearFilters
    \/ LET volumeData == Buckets
       IN \E i, j \in 1..Len(volumeData) : HandleBrushChange(volumeData, i, j)
    \/ LET volumeData == Buckets
       IN \E k \in 1..Len(volumeData) : HandleChartClick(volumeData[k])
    \/ ResetZoom
    \/ \E i \in {RowsPerPage} \cap (1..Len(Page)) : OnLogClick(i)
    \/ CloseModal

PageSpec == PageInit /\ [][PageNext]_vars

\* the whole page: ingestions that may overlap, and on the Dashboard the
\* handlers that select an entry and the modal's close
SessionNext ==
    \/ Next
    \/ \E i \in 1..Len(Page) : OnLogClick(i)
    \/ LET volumeData == Buckets
       IN \E k \in 1..Len(volumeData) : HandleChartClick(volumeData[k])
    \/ CloseModal

SessionSpec == Init /\ [][SessionNext]_vars

(***************************************************************************)
(* Vocabulary of the properties.                                           *)
(***************************************************************************)
TimeOf(log) == DateGetTime(log.eventTimestamp)

\* a line that decodes as a JSON object with the three required fields
\* present and non-empty
IsLogRecord(line) ==
    /\ line.kind = "object"
    /\ \A v \in {line.obj.eventTimestamp, line.obj.component, line.obj.traceLevel} :
          v \notin {Undefined, ""}

\* the entries of the log records of a file, in line order
AcceptedEntries(file) ==
    LET recs == SelectSeq(file.lines, IsLogRecord)
    IN [i \in 1..Len(recs) |-> recs[i].obj]

RECURSIVE AcceptedOfAll(_)
AcceptedOfAll(fl) ==
    IF fl = <<>> THEN <<>> ELSE AcceptedEntries(Head(fl)) \o AcceptedOfAll(Tail(fl))

\* the multiset of the elements of a sequence
BagOf(seq) ==
    [e \in {seq[i] : i \in 1..Len(seq)} |-> Cardinality({i \in 1..Len(seq) : seq[i] = e})]

\* the sources of a FileList that yield at least one log record
Contributing(fl) == {i \in 1..Len(fl) : AcceptedEntries(fl[i]) # <<>>}

Without(fl, i) == SubSeq(fl, 1, i - 1) \o SubSeq(fl, i + 1, Len(fl))

NonDecreasing(seq) ==
    \A i \in 1..(Len(seq) - 1) :
        /\ TimeOf(seq[i]) # NaN /\ TimeOf(seq[i + 1]) # NaN
        /\ TimeOf(seq[i]) <= TimeOf(seq[i + 1])

Published == lastOp.op = "publish"

(***************************************************************************)
(* Ingestion.                                                              *)
(***************************************************************************)
\* C1 (as claimed): the entry sequence that an ingestion publishes is
\* non-decreasing in eventTimestamp read as a datetime, for any sources.
C1_SortTotality == Published => NonDecreasing(logs)

\* C2: the published dataset (entries, their order, ties included, and the
\* name) is determined by the FileList alone, whatever the order in which
\* the reads complete; nothing is merged before every read has completed.
C2_MergeIndependence ==
    Published =>
        /\ logs = MergedLogs(engine, lastOp.files)
        /\ fileName = MergedName(engine, lastOp.files)

\* C2 witness: two contributing files with entries of one instant, published
\* after the read of the first file completed last
C2_Witness ==
    /\ Published
    /\ Len(lastOp.files) = 2 /\ lastOp.arg = 1
    /\ Contributing(lastOp.files) = {1, 2}
    /\ \E i \in 1..(Len(logs) - 1) :
          /\ TimeOf(logs[i]) # NaN
          /\ TimeOf(logs[i]) = TimeOf(logs[i + 1])
          /\ logs[i].component # logs[i + 1].component

\* C3 (as claimed): when the read of one source fails and another source of
\* the batch has log records, the other sources are merged and published.
C3_FailureIsolation ==
    (/\ lastOp.op = "failed"
     /\ Contributing(Without(lastOp.files, lastOp.arg)) # {})
        => /\ hasData
           /\ BagOf(logs) = BagOf(AcceptedOfAll(Without(lastOp.files, lastOp.arg)))

\* C4: a published dataset holds exactly the log records of the sources of
\* its ingestion, each as often as it occurs there, and nothing of the
\* dataset held before.
C4_DatasetContent == Published => BagOf(logs) = BagOf(AcceptedOfAll(lastOp.files))

\* C4 witness: a dataset published over one that the Dashboard was showing,
\* from a batch with a source that has no log record
C4_Witness ==
    /\ Published
    /\ lastOp.had
    /\ Len(lastOp.files) = 2
    /\ Cardinality(Contributing(lastOp.files)) = 1
    /\ Len(logs) > 0

\* C5: the name is the name of the one contributing source, or
\* "<N> Log Files Merged" with N the number of contributing sources.
C5_DatasetName ==
    Published =>
        LET contributing == Contributing(lastOp.files)
        IN IF Cardinality(contributing) = 1
           THEN \A i \in contributing : fileName = lastOp.files[i].name
           ELSE fileName = ToString(Cardinality(contributing)) \o " Log Files Merged"

\* C5 witness: two sources supplied, one of them contributing
C5_Witness ==
    /\ Published
    /\ Len(lastOp.files) = 2
    /\ Contributing(lastOp.files) = {2}
    /\ fileName = lastOp.files[2].name

\* C6: the result of reading one source holds exactly its log records; a
\* rejected line neither appears nor keeps another line out.
C6_SchemaGate ==
    \A r \in RunIds :
        \A i \in 1..Len(runs[r].results) :
            runs[r].results[i].ready =>
                BagOf(runs[r].results[i].logs) = BagOf(AcceptedEntries(runs[r].files[i]))

\* C6 witness: a source read with a rejected line between two accepted ones
C6_Witness ==
    \E r \in RunIds :
        \E i \in 1..Len(runs[r].results) :
            /\ runs[r].results[i].ready
            /\ Len(runs[r].results[i].logs) = 2
            /\ \E k \in 2..(Len(runs[r].files[i].lines) - 1) :
                  /\ ~IsLogRecord(runs[r].files[i].lines[k])
                  /\ IsLogRecord(runs[r].files[i].lines[k - 1])
                  /\ IsLogRecord(runs[r].files[i].lines[k + 1])

\* C7 (as claimed): an ingestion that ends without a valid entry, or with a
\* failure of the batch, shows an error message and leaves the dataset, its
\* name and the has-data flag as they were when it started (every ingestion
\* starts from the upload screen: no entries, no name, no data).
C7_NoPublicationOnFailure ==
    lastOp.op \in {"empty", "failed"} =>
        /\ error \in {ErrNoValidLogs, ErrProcessFailed}
        /\ logs = <<>> /\ fileName = "" /\ ~hasData

\* C8 (as claimed): a drop or selection of no file shows an error message.
C8_EmptyListReported ==
    (lastOp.op = "drop" /\ lastOp.files = <<>>) => error # NoError

\* C8 (amended): a drop or selection of no file starts no ingestion and
\* changes nothing: no error message is set, none is cleared, nothing loads.
C8_EmptyListIgnored ==
    [][(lastOp'.op = "drop" /\ lastOp'.files = <<>>)
          => UNCHANGED <<runs, appVars, uploadVars, dashVars>>]_vars

\* C8 witness: after a drop of no file, with an earlier error still shown
C8_Witness ==
    /\ lastOp.op = "drop" /\ lastOp.files = <<>>
    /\ error = ErrNoValidLogs
    /\ ~isLoading

(***************************************************************************)
(* Queries of the Dashboard.                                               *)
(***************************************************************************)
\* out is seq restricted to the indices in keep, in the order of seq
IsSubsequenceAt(out, seq, keep) ==
    /\ Len(out) = Cardinality(keep)
    /\ \A i \in keep : out[Cardinality({j \in keep : j <= i})] = seq[i]

\* needle occurs in text when the case of the letters is ignored
CaseInsensitiveSubstring(needle, text) ==
    /\ text # UndefinedText
    /\ \E off \in 0..(Len(text) - Len(needle)) :
          \A k \in 1..Len(needle) : LowerChar(text[off + k]) = LowerChar(needle[k])

SearchKeeps(log, f) ==
    \/ f.search = <<>>
    \/ CaseInsensitiveSubstring(f.search, log.message)
    \/ CaseInsensitiveSubstring(f.search, log.operationName)

\* the three criteria of the LogFilter, all of them
FilterKeeps(log, f) ==
    /\ SearchKeeps(log, f)
    /\ f.level = "" \/ log.traceLevel = f.level
    /\ f.component = "" \/ log.component = f.component

\* every entry has the message (a string) that LogEntry requires
HasMessages(seq) == \A i \in 1..Len(seq) : seq[i].message # UndefinedText

\* start <= eventTimestamp <= end
InWindow(log, range) ==
    /\ NaN \notin {TimeOf(log), range.start, range.end}
    /\ range.start <= TimeOf(log)
    /\ TimeOf(log) <= range.end

\* the indices of the dataset's entries that the time range lets through
InView == {i \in 1..Len(logs) : timeRange = Null \/ InWindow(logs[i], timeRange[1])}

\* C9: for entries that are LogEntry values (message is a string) and any
\* LogFilter, the filter returns exactly the entries that meet all three
\* criteria, in their order; what it returns is among what the search
\* criterion alone lets through.
C9_FilterConjunction ==
    HasMessages(View) =>
        /\ ~Table.threw
        /\ IsSubsequenceAt(Table.value, View,
                           {i \in 1..Len(View) : FilterKeeps(View[i], filters)})
        /\ LET searchOnly ==
                   TableFilteredLogs(View, [EmptyFilters EXCEPT !.search = filters.search])
           IN \A i \in 1..Len(Table.value) :
                  \E j \in 1..Len(searchOnly.value) : searchOnly.value[j] = Table.value[i]

\* C9 witness: search, level and component all set; the search matches one
\* entry by its message and another by its operationName only, with the case
\* of the letters differing; the level keeps one of them
C9_Witness ==
    /\ HasMessages(View)
    /\ filters.search # <<>> /\ filters.level # "" /\ filters.component # ""
    /\ Len(Table.value) > 0
    /\ \E i, j \in 1..Len(View) :
          /\ SearchKeeps(View[i], filters) /\ ~FilterKeeps(View[i], filters)
          /\ FilterKeeps(View[j], filters)
          /\ ~Includes(View[j].message, filters.search)

\* C10: with a time range the entries in view are exactly those with
\* start <= eventTimestamp <= end, without one the whole dataset; the
\* LogFilter works on the entries in view and on nothing else: what it
\* returns are the entries in the range that meet its criteria.
C10_TimeRangePrefilter ==
    /\ timeRange = Null => View = logs
    /\ IsSubsequenceAt(View, logs, InView)
    /\ ~Table.threw =>
          IsSubsequenceAt(Table.value, logs,
                          {i \in InView : FilterKeeps(logs[i], filters)})
    /\ Table.threw => \E i \in InView : logs[i].message = UndefinedText

\* C10 witness: a time range with an entry at its very end in view and an
\* entry of the dataset out of view, and a LogFilter that drops an entry
\* that is in view
C10_Witness ==
    /\ timeRange # Null
    /\ \E i \in InView : TimeOf(logs[i]) = timeRange[1].end
    /\ Len(View) < Len(logs)
    /\ ~Table.threw
    /\ 0 < Len(Table.value) /\ Len(Table.value) < Len(View)

\* C11 (as claimed): with any LogFilter and any time range, the level and
\* component choices are the distinct levels and components of the whole
\* dataset.
C11_ChoicesOfDataset ==
    /\ LevelChoices = {logs[i].traceLevel : i \in 1..Len(logs)}
    /\ ComponentChoices = {logs[i].component : i \in 1..Len(logs)}

\* C11 (amended): the choices are the distinct levels and components of the
\* entries that the time range lets through (of the whole dataset without a
\* time range), whatever the LogFilter keeps of them.
C11_ChoicesOfView ==
    /\ LevelChoices = {logs[i].traceLevel : i \in InView}
    /\ ComponentChoices = {logs[i].component : i \in InView}

\* C11 witness: a time range that leaves out the only entry of some level,
\* and a LogFilter that keeps rows of one level and one component only, while
\* another level and another component of the entries in view are offered
C11_Witness ==
    /\ ~Table.threw
    /\ timeRange # Null
    /\ \E i \in 1..Len(logs) : logs[i].traceLevel \notin LevelChoices
    /\ filters.level # "" /\ filters.component # "" /\ filters.search # <<>>
    /\ Len(Table.value) > 0
    /\ \E l \in LevelChoices : \A i \in 1..Len(Table.value) : Table.value[i].traceLevel # l
    /\ \E c \in ComponentChoices : \A i \in 1..Len(Table.value) : Table.value[i].component # c

(***************************************************************************)
(* Timeline buckets.                                                       *)
(***************************************************************************)
\* every eventTimestamp of the dataset is a datetime
TimestampsParse(seq) == \A i \in 1..Len(seq) : TimeOf(seq[i]) # NaN

\* the start of the interval of width w that holds t
IntervalStart(t, w) == t - (t % w)

Widths == {BucketOneSecondMs, BucketTenSecondsMs, BucketOneMinuteMs}

RECURSIVE SumOfCounts(_)
SumOfCounts(buckets) ==
    IF buckets = <<>> THEN 0 ELSE Head(buckets).count + SumOfCounts(Tail(buckets))

\* the width of the buckets of the dataset
WidthOfBuckets == Buckets[1].endTime - Buckets[1].timestamp

\* C12: for a dataset whose timestamps are datetimes there is, for the
\* width w, exactly one bucket per key floor(ts / w) * w of an entry, from
\* the key to the key + w, with the number of the entries of that key and
\* the number of those of level Error or Critical; the buckets are in
\* strictly ascending order of their start, each start at or after the end
\* of the bucket before, and the counts add up to the number of entries.
C12_BucketContents ==
    (Len(logs) > 0 /\ TimestampsParse(logs)) =>
        LET w == WidthOfBuckets
            keyOf == [i \in 1..Len(logs) |-> IntervalStart(TimeOf(logs[i]), w)]
        IN /\ w \in Widths
           /\ {Buckets[n].timestamp : n \in 1..Len(Buckets)} = {keyOf[i] : i \in 1..Len(logs)}
           /\ \A n \in 1..Len(Buckets) :
                 /\ Buckets[n].endTime = Buckets[n].timestamp + w
                 /\ Buckets[n].count =
                        Cardinality({i \in 1..Len(logs) : keyOf[i] = Buckets[n].timestamp})
                 /\ Buckets[n].errors =
                        Cardinality({i \in 1..Len(logs) :
                                        /\ keyOf[i] = Buckets[n].timestamp
                                        /\ logs[i].traceLevel \in {"Error", "Critical"}})
           /\ \A n \in 1..(Len(Buckets) - 1) :
                 /\ Buckets[n].timestamp < Buckets[n + 1].timestamp
                 /\ Buckets[n].endTime <= Buckets[n + 1].timestamp
           /\ SumOfCounts(Buckets) = Len(logs)

\* C12 witness: a bucket of several entries, one of them Critical and one
\* neither Error nor Critical, zoomed to by a click, and a second bucket
C12_Witness ==
    /\ TimestampsParse(logs)
    /\ Len(Buckets) > 1
    /\ timeRange # Null
    /\ \E n \in 1..Len(Buckets) :
          /\ timeRange[1] = [start |-> Buckets[n].timestamp, end |-> Buckets[n].endTime]
          /\ Buckets[n].count > Buckets[n].errors
          /\ Buckets[n].errors > 0
          /\ \E i \in 1..Len(logs) :
                /\ IntervalStart(TimeOf(logs[i]), WidthOfBuckets) = Buckets[n].timestamp
                /\ logs[i].traceLevel = "Critical"

\* C13 (as claimed): every bucket ends where the next one starts.
C13_BucketsTile ==
    TimestampsParse(logs) =>
        \A n \in 1..(Len(Buckets) - 1) : Buckets[n].endTime = Buckets[n + 1].timestamp

\* C13 (amended): for a dataset whose timestamps are datetimes, every
\* entry lies in the interval [start, end) of exactly one bucket, every
\* bucket holds an entry, and no bucket starts before the one before it
\* ends; the first bucket holds the earliest entry and the last bucket the
\* latest, so the buckets lie within [min(ts) - width, max(ts) + width).
C13_BucketsCoverEntries ==
    (Len(logs) > 0 /\ TimestampsParse(logs)) =>
        LET in(i, n) == /\ Buckets[n].timestamp <= TimeOf(logs[i])
                        /\ TimeOf(logs[i]) < Buckets[n].endTime
            earliest == CHOOSE i \in 1..Len(logs) :
                            \A j \in 1..Len(logs) : TimeOf(logs[i]) <= TimeOf(logs[j])
            latest == CHOOSE i \in 1..Len(logs) :
                          \A j \in 1..Len(logs) : TimeOf(logs[i]) >= TimeOf(logs[j])
        IN /\ \A i \in 1..Len(logs) : Cardinality({n \in 1..Len(Buckets) : in(i, n)}) = 1
           /\ \A n \in 1..Len(Buckets) : \E i \in 1..Len(logs) : in(i, n)
           /\ \A n \in 1..(Len(Buckets) - 1) : Buckets[n].endTime <= Buckets[n + 1].timestamp
           /\ in(earliest, 1) /\ in(latest, Len(Buckets))

\* C13 witness: two buckets with a span of time without entries between
\* them, selected with the brush, and an entry before the epoch
C13_Witness ==
    /\ TimestampsParse(logs)
    /\ timeRange # Null
    /\ \E n \in 1..(Len(Buckets) - 1) :
          /\ Buckets[n].endTime < Buckets[n + 1].timestamp
          /\ timeRange[1] = [start |-> Buckets[n].timestamp, end |-> Buckets[n + 1].endTime]
    /\ \E i \in 1..Len(logs) : TimeOf(logs[i]) < 0

(***************************************************************************)
(* Performance chart and pagination, on long logs.                         *)
(***************************************************************************)
\* the entry carries eventData.perfCounters, or the free memory or the CPU
\* load of eventData.machineInfo
CarriesPerf(log) ==
    \E ed \in {log.eventData[k] : k \in 1..Len(log.eventData)} :
        \/ ed.perfCounters # <<>>
        \/ \E mi \in {ed.machineInfo[k] : k \in 1..Len(ed.machineInfo)} :
              mi.physicalFreeMemoryMB # <<>> \/ mi.cpuLoad # <<>>

\* the indices, in order, of the entries of seq that carry such data
PerfIndicesOf(seq) == SelectSeq([i \in 1..Len(seq) |-> i], LAMBDA i : CarriesPerf(seq[i]))

\* ceil(n / MaxPerfPoints): the least s with n <= s * MaxPerfPoints
Stride(n) == CHOOSE st \in 1..n : n <= st * MaxPerfPoints /\ (st - 1) * MaxPerfPoints < n

\* C14: with N entries in view that carry performance data and
\* s = ceil(N / 500), the chart draws exactly the entries at the positions
\* 0, s, 2s, ... of these N, in their order: the first one always, at most
\* 500 of them, in non-decreasing order of time; nothing when N = 0.
C14_Downsample ==
    LET view == View
        indices == PerfIndicesOf(view)
        n == Len(indices)
        drawn == SampledPerfLogs(view)
        points == PerfPoints
    IN /\ n = 0 => points = <<>>
       /\ n > 0 =>
             LET st == Stride(n)
                 positions == {q \in 0..(n - 1) : q % st = 0}
             IN /\ Len(drawn) = Cardinality(positions)
                /\ \A k \in 1..Len(drawn) : drawn[k] = view[indices[(k - 1) * st + 1]]
                /\ drawn[1] = view[indices[1]]
       /\ Len(points) = Len(drawn)
       /\ Len(points) <= MaxPerfPoints
       /\ \A k \in 1..Len(points) : points[k].timestamp = TimeOf(drawn[k])
       /\ \A k \in 1..(Len(points) - 1) : points[k].timestamp <= points[k + 1].timestamp

\* C14 witness: after a brush, more than 500 entries in view carry
\* performance data, in all three forms, others do not, and every second one
\* is drawn
C14_Witness ==
    /\ timeRange # Null
    /\ LET view == View
           n == Len(PerfIndicesOf(view))
           points == PerfPoints
       IN /\ n > MaxPerfPoints
          /\ n < Len(view)
          /\ Len(points) * 2 >= n
          /\ Len(points) < n
          /\ \E i, j \in 1..5 :
                /\ view[i].eventData # <<>> /\ view[i].eventData[1].perfCounters = <<>>
                /\ CarriesPerf(view[i])
                /\ view[j].eventData # <<>> /\ ~CarriesPerf(view[j])

RECURSIVE ConcatPages(_, _, _)
\* pages first to last of rows, one after the other
ConcatPages(rows, first, last) ==
    IF first > last THEN <<>>
    ELSE PaginatedLogs(rows, first) \o ConcatPages(rows, first + 1, last)

\* ceil(len / RowsPerPage): the least number of pages that hold len rows
PagesFor(len) == CHOOSE t \in 0..len : len <= t * RowsPerPage /\ (t - 1) * RowsPerPage < len

\* C15: for the filtered rows of the table, totalPages is ceil(len / 50),
\* shown as 1 when there is no row; page p holds the rows (p-1)*50 up to
\* p*50, or up to the last row; pages 1..totalPages one after the other are
\* the filtered rows, each once; the page on display is that slice for the
\* current page.
C15_Pagination ==
    LET rows == Table.value
        len == Len(rows)
        total == TotalPages(rows)
        page == Page
    IN /\ total = PagesFor(len)
       /\ DisplayedTotalPages(rows) = IF len = 0 THEN 1 ELSE PagesFor(len)
       /\ \A p \in 1..total :
             LET size == IF p * RowsPerPage <= len THEN RowsPerPage
                         ELSE len - (p - 1) * RowsPerPage
             IN PaginatedLogs(rows, p) = [k \in 1..size |-> rows[(p - 1) * RowsPerPage + k]]
       /\ ConcatPages(rows, 1, total) = rows
       /\ \A k \in 1..Len(page) : page[k] = rows[(currentPage - 1) * RowsPerPage + k]
       /\ currentPage <= total =>
             Len(page) = IF currentPage * RowsPerPage <= len THEN RowsPerPage
                         ELSE len - (currentPage - 1) * RowsPerPage

\* C15 witness: the table is on its third page, the last one, which is
\* shorter than the others, of rows picked by a LogFilter
C15_Witness ==
    LET rows == Table.value
    IN /\ filters # EmptyFilters
       /\ currentPage = 3
       /\ currentPage = TotalPages(rows)
       /\ Len(Page) > 0 /\ Len(Page) < RowsPerPage
       /\ Len(rows) < Len(View)

(***************************************************************************)
(* Contracts of the published dataset.                                     *)
(***************************************************************************)
\* the four required fields of a LogEntry are present in every entry: the
\* three strings are there and not empty, the timestamp reads as a datetime
HasRequiredFields(seq) ==
    \A i \in 1..Len(seq) :
        /\ seq[i].component \notin {Undefined, ""}
        /\ seq[i].traceLevel \notin {Undefined, ""}
        /\ seq[i].eventTimestamp \notin {Undefined, ""}
        /\ TimeOf(seq[i]) # NaN
        /\ seq[i].message # UndefinedText

\* C16 (as claimed): every entry of every dataset that an ingestion publishes
\* has its four required fields: component, traceLevel, an eventTimestamp
\* that reads as a datetime, and a message that is a string.
C16_RequiredFields == Published => HasRequiredFields(logs)

\* C17 (as claimed): on every dataset that an ingestion can publish, with any
\* LogFilter (an empty or a non-empty search), any TimeRange and any page,
\* the filter of the table completes with a result and raises no error.
C17_QueryTotality == hasData => ~Table.threw

\* a call of processFiles that has not resumed after its await: it ends by
\* publishing a dataset, or by reporting an error
InFlight(r) == runs[r].pc = "reading"

\* C18 (as claimed): no ingestion starts while one is running, and while the
\* dashboard shows a dataset no ingestion is running that can still complete
\* and replace that dataset.
C18_IngestionExclusion ==
    /\ Cardinality({r \in RunIds : InFlight(r)}) <= 1
    /\ DashboardShown => \A r \in RunIds : ~InFlight(r)

(***************************************************************************)
(* The policies of the activity chart.                                     *)
(***************************************************************************)
\* the span of a dataset: from its first entry to its last, in milliseconds
SpanOf(seq) == TimeOf(seq[Len(seq)]) - TimeOf(seq[1])

\* C19: for a dataset whose timestamps read as datetimes, with D the time of
\* its last entry minus the time of its first, every bucket of the chart is
\* 1,000 ms wide when D < 300,000, 10,000 ms wide when 300,000 <= D <
\* 3,600,000, and 60,000 ms wide otherwise; the width comes from the whole
\* dataset, whatever the time range on display.
C19_BucketWidth ==
    (Len(logs) > 0 /\ TimestampsParse(logs)) =>
        LET buckets == Buckets
            D == SpanOf(logs)
            width == IF D < 300000 THEN 1000
                     ELSE IF D < 3600000 THEN 10000
                     ELSE 60000
        IN /\ BucketSizeMs(logs) = width
           /\ Len(buckets) > 0
           /\ \A n \in 1..Len(buckets) : buckets[n].endTime - buckets[n].timestamp = width

\* C19 witness: a dataset that spans exactly five minutes is drawn in
\* buckets of ten seconds, more than one, and the chart has been zoomed to
\* one of them
C19_Witness ==
    /\ Len(logs) > 1 /\ TimestampsParse(logs)
    /\ SpanOf(logs) = 300000
    /\ LET buckets == Buckets
       IN /\ Len(buckets) > 1
          /\ buckets[1].endTime - buckets[1].timestamp = 10000
          /\ timeRange # Null
          /\ \E n \in 1..Len(buckets) :
                timeRange[1] = [start |-> buckets[n].timestamp, end |-> buckets[n].endTime]

\* the entries of the dataset in [bucketStart, bucketEnd) whose level is
\* Error or Critical, by their positions in the dataset
ErrorsIn(data) ==
    {i \in 1..Len(logs) :
        /\ TimeOf(logs[i]) # NaN /\ data.timestamp # NaN
        /\ data.timestamp <= TimeOf(logs[i]) /\ TimeOf(logs[i]) < data.endTime
        /\ logs[i].traceLevel \in {"Error", "Critical"}}

\* what a click on the bucket data leaves behind, E being ErrorsIn(data)
ClickPolicy(data) ==
    LET E == ErrorsIn(data)
    IN /\ E # {} => filters'.level = "Error"
       /\ Cardinality(E) = 1 => \E i \in E : selectedLog' = <<logs[i]>>
       /\ Cardinality(E) >= 2 => selectedLog' = selectedLog
       /\ E = {} => (filters'.level = "" /\ selectedLog' = selectedLog)

\* C20: a click on one bucket of the chart, with E the entries of the full
\* dataset whose time is in [bucketStart, bucketEnd) and whose level is Error
\* or Critical: if E is not empty the level filter becomes "Error", and with
\* exactly one such entry it becomes the selected entry (with two or more the
\* selection stays); if E is empty the level filter becomes "" and the
\* selection stays.
C20_ClickToFilter ==
    [][LET volumeData == Buckets
       IN \A k \in 1..Len(volumeData) :
             HandleChartClick(volumeData[k]) => ClickPolicy(volumeData[k])]_vars

\* C20 witness: an entry was selected by a click on a bucket that holds it as
\* its only error, although the dataset has another error at the very end of
\* that bucket; the level filter is "Error" and the chart is zoomed to the
\* bucket
C20_Witness ==
    /\ selectedLog # Null
    /\ filters.level = "Error"
    /\ timeRange # Null
    /\ LET volumeData == Buckets
       IN \E k \in 1..Len(volumeData) :
             /\ timeRange[1] = [start |-> volumeData[k].timestamp,
                                end |-> volumeData[k].endTime]
             /\ \E i \in ErrorsIn(volumeData[k]) :
                   /\ ErrorsIn(volumeData[k]) = {i}
                   /\ selectedLog[1] = logs[i]
             /\ \E j \in 1..Len(logs) :
                   /\ TimeOf(logs[j]) = volumeData[k].endTime
                   /\ logs[j].traceLevel = "Error"

\* the time range of a selection of the buckets i to j
RangeOfSelection(volumeData, i, j) ==
    [start |-> volumeData[i].timestamp, end |-> volumeData[j].endTime]

\* C21: for a dataset whose timestamps read as datetimes, a brush over the
\* buckets i..j (i <= j) and a click on one bucket (i = j) leave the time
\* range {start: bucket[i].bucketStart, end: bucket[j].bucketEnd}; its start
\* is before its end, and for one bucket end - start is the bucket width.
C21_SelectionMapping ==
    [][TimestampsParse(logs) =>
          LET volumeData == Buckets
              width == BucketSizeMs(logs)
          IN \A i \in 1..Len(volumeData) : \A j \in i..Len(volumeData) :
                (\/ HandleBrushChange(volumeData, i, j)
                 \/ (i = j /\ HandleChartClick(volumeData[i])))
                => /\ timeRange' = <<RangeOfSelection(volumeData, i, j)>>
                   /\ timeRange'[1].start < timeRange'[1].end
                   /\ i = j => timeRange'[1].end - timeRange'[1].start = width]_vars

\* C21 witness: the chart is zoomed to a brush over several buckets, from
\* the start of the first to the end of the last
C21_Witness ==
    /\ TimestampsParse(logs)
    /\ timeRange # Null
    /\ LET volumeData == Buckets
       IN \E i \in 1..Len(volumeData) : \E j \in (i + 1)..Len(volumeData) :
             /\ timeRange[1] = RangeOfSelection(volumeData, i, j)
             /\ timeRange[1].end - timeRange[1].start > BucketSizeMs(logs)

(***************************************************************************)
(* The chart and the table under changes of the time range, of the filter  *)
(* and of the page.                                                        *)
(***************************************************************************)
\* C22: the buckets of the chart (which exist, their bounds, count and
\* errors) depend on the full dataset only: after any brush, click on a
\* bucket, reset of the zoom, change of the LogFilter and change of page they
\* are the buckets of all the entries of the dataset, one per interval that
\* holds an entry, in ascending order, with every entry counted.
C22_TimelineFrame ==
    LET buckets == Buckets
        width == BucketSizeMs(logs)
        startOf == [i \in 1..Len(logs) |-> IntervalStart(TimeOf(logs[i]), width)]
        memberOf == [n \in 1..Len(buckets) |->
                        {i \in 1..Len(logs) : startOf[i] = buckets[n].timestamp}]
    IN /\ {buckets[n].timestamp : n \in 1..Len(buckets)} = {startOf[i] : i \in 1..Len(logs)}
       /\ \A n \in 1..Len(buckets) :
             /\ buckets[n].endTime = buckets[n].timestamp + width
             /\ buckets[n].count = Cardinality(memberOf[n])
             /\ buckets[n].errors =
                   Cardinality({i \in memberOf[n] :
                                   logs[i].traceLevel \in {"Error", "Critical"}})
       /\ \A n \in 1..(Len(buckets) - 1) : buckets[n].timestamp < buckets[n + 1].timestamp

\* C22 witness: the chart still shows all its buckets, with every entry of
\* the dataset counted, while the table is zoomed to a part of the dataset,
\* filtered, and on its second page
C22_Witness ==
    LET buckets == Buckets
    IN /\ timeRange # Null
       /\ filters # EmptyFilters
       /\ currentPage = 2
       /\ Len(View) < Len(logs)
       /\ Len(Table.value) < Len(View)
       /\ Len(buckets) > 1
       /\ SumOfCounts(buckets) = Len(logs)

\* C23: after a change of the LogFilter (of its search, level or component,
\* by the inputs of the table, by Clear Filters or by a click on a bucket)
\* the current page is 1, whatever it was.
C23_PageResetOnFilterChange == [][filters' # filters => currentPage' = 1]_vars

\* C23 witness: a level filter is in force and the table, of several pages,
\* is on page 1, while the entry that was selected is on a later page
C23_Witness ==
    LET rows == Table.value
    IN /\ filters.level # ""
       /\ currentPage = 1
       /\ TotalPages(rows) > 1
       /\ selectedLog # Null
       /\ \E k \in (RowsPerPage + 1)..Len(rows) : rows[k] = selectedLog[1]

\* the largest page that the table can be on: max(1, totalPages)
LastPage(rows) == IF TotalPages(rows) < 1 THEN 1 ELSE TotalPages(rows)

\* C24 (as claimed): after any page navigations, LogFilter changes and
\* changes of the time range, the current page is between 1 and
\* max(1, totalPages) of the rows that the table shows, so the page on
\* display has a row whenever there is a row to show.
C24_PageBound ==
    LET rows == Table.value
    IN /\ 1 <= currentPage /\ currentPage <= LastPage(rows)
       /\ Len(rows) > 0 => Len(Page) > 0

\* C25 (as claimed): when the time range is that of a selection of the
\* buckets i..j (a brush, or a click with i = j), the entries that pass the
\* TimeRange pre-filter are the entries counted in the buckets i..j: there
\* are as many as the sum of the counts of these buckets, and none of them
\* belongs to a bucket that is not selected.
C25_SelectionMatchesBuckets ==
    (timeRange # Null /\ TimestampsParse(logs)) =>
        LET volumeData == Buckets
            view == View
            width == BucketSizeMs(logs)
        IN \A i \in 1..Len(volumeData) : \A j \in i..Len(volumeData) :
              timeRange[1] = RangeOfSelection(volumeData, i, j) =>
                  /\ Len(view) = SumOfCounts(SubSeq(volumeData, i, j))
                  /\ \A k \in 1..Len(view) :
                        \E n \in i..j :
                            IntervalStart(TimeOf(view[k]), width) = volumeData[n].timestamp

\* the entries that the table displays: the view, filtered
Displayed(rows, log) == \E m \in 1..Len(rows) : rows[m] = log

\* C26 (as claimed): after a click on a bucket that holds an Error or
\* Critical entry, the table (TimeRange pre-filter and LogFilter) displays
\* every Error and Critical entry of that bucket: it is not empty, and an
\* entry that the click selected is among its rows.
C26_ClickShowsErrors ==
    [][LET volumeData == Buckets
       IN \A k \in 1..Len(volumeData) :
             (HandleChartClick(volumeData[k]) /\ ErrorsIn(volumeData[k]) # {}) =>
                 /\ \A i \in ErrorsIn(volumeData[k]) : Displayed(Table'.value, logs[i])
                 /\ Len(Table'.value) > 0
                 /\ Cardinality(ErrorsIn(volumeData[k])) = 1 =>
                        Displayed(Table'.value, selectedLog'[1])]_vars

\* C27: for a dataset whose timestamps read as datetimes, when the time
\* range is the one emitted for a brush over the buckets i..j (i <= j), the
\* indices computed for the controlled brush are startIndex = i and
\* endIndex = j, and a brush change with these indices emits no time range:
\* the cycle of brush and time range is at a fixed point.
C27_BrushRoundTrip ==
    (timeRange # Null /\ TimestampsParse(logs)) =>
        LET volumeData == Buckets
            indices == BrushIndices(volumeData, timeRange)
        IN \A i \in 1..Len(volumeData) : \A j \in i..Len(volumeData) :
              timeRange[1] = RangeOfSelection(volumeData, i, j) =>
                  /\ indices = <<[startIndex |-> i, endIndex |-> j]>>
                  /\ ~BrushEmits(volumeData, indices[1].startIndex, indices[1].endIndex)

\* C27 witness: the chart is zoomed by a brush to its first and second
\* bucket, the third bucket starts where the second ends, and the indices of
\* the brush are those of the first and the second
C27_Witness ==
    /\ TimestampsParse(logs)
    /\ timeRange # Null
    /\ LET volumeData == Buckets
       IN /\ Len(volumeData) > 2
          /\ timeRange[1] = RangeOfSelection(volumeData, 1, 2)
          /\ volumeData[3].timestamp = volumeData[2].endTime
          /\ BrushIndices(volumeData, timeRange) = <<[startIndex |-> 1, endIndex |-> 2]>>

(***************************************************************************)
(* The selected entry under overlapping ingestions.                        *)
(***************************************************************************)
\* C28 (as claimed): in every reachable state, whatever the interleaving of
\* ingestions, selections of an entry, clicks on a bucket and resets (a
\* second ingestion that started before the first ended and completes under
\* the dashboard included), a selected entry is an entry of the dataset.
C28_SelectedInDataset ==
    selectedLog # Null => \E i \in 1..Len(logs) : logs[i] = selectedLog[1]

====
